---- MODULE Spec2Model ----
(***************************************************************************)
(* Model of liqtags/broll: the incremental media-analysis cache            *)
(* (analyzeMediaFiles), the file gatherer (gatherMediaFiles), the          *)
(* suggestion request (suggestBroll) and the main script that chains them. *)
(*                                                                         *)
(* A path is a record [dir, stem, ext]; its base name is <<stem, ext>>.    *)
(* A JavaScript value that can sit in the cache is a record                *)
(* [kind, items]: kind "list" (an array, items = its elements), "string"   *)
(* (items = its characters), or "null" / "object" / "number" (items        *)
(* unused).  The cache file additionally can be "absent" or hold "garbage" *)
(* (text that JSON.parse rejects).  An array element is a record           *)
(* [tag, filename, media_type, description, relevance, extra] with tag     *)
(* "record" (an object), "null" or "scalar" (number, string, boolean).     *)
(***************************************************************************)
EXTENDS Integers, Sequences, FiniteSets, TLC

\* ------------------------------------------------------------------ bounds
MaxFiles == 2   \* longest list of discovered paths handed to one run
MaxItems == 3   \* a run starts only if the cache cannot outgrow this

\* ---------------------------------------------------------------- universe
Dirs  == {"media", "media/sub"}
Stems == {"a"}
Exts  == {"mp4", "PNG", "txt"}
\* the files of the media tree: one base name is found in two directories
Paths == {p \in [dir : Dirs, stem : Stems, ext : Exts] : p.dir = "media" \/ p.ext = "mp4"}

Undefined == <<>>          \* the value of a property that is not there
AltName   == <<"clip", "mp4">>   \* a filename the service may answer instead of the base name

SeqsUpTo(S, n) == UNION {[1..k -> S] : k \in 0..n}

\* String.prototype.toLowerCase on the extensions of the universe
toLowerCase(e) == IF e = "PNG" THEN "png" ELSE e

\* path.basename: the last segment of the path
basename(p) == <<p.stem, p.ext>>

\* path.extname (the leading dot is left out of the model's extensions)
extname(p) == p.ext

\* ---------------------------------------------------------- gatherMediaFiles
allowedExtensions == {"mp4", "mov", "jpg", "jpeg", "png"}

\* the loop over walk(mediaDir): keeps, in walk order, the entries whose
\* lower-cased extension is allowed
GatherFilter(entries) == SelectSeq(entries, LAMBDA p : toLowerCase(p.ext) \in allowedExtensions)

\* gatherMediaFiles(mediaDir): [] when the directory does not exist
gatherMediaFiles(dirExists, entries) == IF ~dirExists THEN <<>> ELSE GatherFilter(entries)

\* ------------------------------------------------------------ media items
ImageExts == {"jpg", "jpeg", "png", "gif", "bmp", "webp"}
VideoExts == {"mp4", "mov", "mkv", "webm", "m4v"}

\* the if / else-if / else chain that sets mediaType
MediaType(p) ==
    LET fileExt == toLowerCase(extname(p))
    IN  IF fileExt \in ImageExts THEN "image"
        ELSE IF fileExt \in VideoExts THEN "video"
        ELSE "other"

Item(fn, mt, d, r, x) ==
    [tag |-> "record", filename |-> fn, media_type |-> mt, description |-> d,
     relevance |-> r, extra |-> x]

NullElem   == [tag |-> "null", filename |-> Undefined, media_type |-> "", description |-> "",
               relevance |-> "", extra |-> {}]
ScalarElem == [tag |-> "scalar", filename |-> Undefined, media_type |-> "", description |-> "",
               relevance |-> "", extra |-> {}]

FallbackItem_UnknownKind(fileName, mediaType) ==
    Item(fileName, "unknown", "No description found", "unknown", {})

\* the literal assigned when generateStructuredOutput returned null
FallbackItem(fileName, mediaType) ==
    Item(fileName, mediaType, "No description found", "unknown", {})

\* outcomes of one analysis request (generateStructuredOutput, analysis): the
\* credential is missing, the response is not OK, the content is not JSON, the
\* content is the JSON null, or the content is a JSON object (response_format is
\* json_object) that names the file by its base name or by another name
FailOutcomes == {"no_key", "http_error", "bad_json"}
Outcomes == FailOutcomes \cup {"null_json", "ok_same", "ok_other"}

\* generateStructuredOutput<MediaItem>: what the call returns for a file;
\* "null" stands for the JavaScript null (every throw is caught and mapped to it,
\* and the content "null" parses to it)
AnalysisReturns(p, outcome) ==
    CASE outcome \in FailOutcomes -> NullElem
      [] outcome = "null_json"    -> NullElem
      [] outcome = "ok_same"      -> Item(basename(p), MediaType(p), "ai", "ai", {"tags"})
      [] outcome = "ok_other"     -> Item(AltName, "video", "ai", "ai", {})

\* the body of the per-file loop after the request: item, or the fallback if null
ItemFor(p, outcome) ==
    LET item == AnalysisReturns(p, outcome)
    IN  IF item = NullElem THEN FallbackItem(basename(p), MediaType(p)) ELSE item

\* ------------------------------------------------------------------ cache
JList(s)  == [kind |-> "list", items |-> s]
Absent    == [kind |-> "absent", items |-> <<>>]
Garbage   == [kind |-> "garbage", items |-> <<>>]
JNull     == [kind |-> "null", items |-> <<>>]
JObject   == [kind |-> "object", items |-> <<>>]
JNumber   == [kind |-> "number", items |-> <<>>]
JString   == [kind |-> "string", items |-> <<ScalarElem>>]

\* item.filename: throws on null, undefined on a scalar or on a record without it
FilenameThrows(e) == e.tag = "null"

\* cachedItems.map(item => item.filename) raises: not an array, or a null element
MapThrows(v) == v.kind # "list" \/ \E i \in DOMAIN v.items : FilenameThrows(v.items[i])

\* new Set(cachedItems.map(item => item.filename))
FilenameSet(v) == {v.items[i].filename : i \in DOMAIN v.items}

\* [...v]: only arrays and strings are iterable
SpreadThrows(v) == v.kind \notin {"list", "string"}

\* the try block that loads the cache: <<cachedItems, cachedFilenames>>
LoadCache(file, readOk) ==
    IF file.kind = "absent" \/ ~readOk \/ file.kind = "garbage"
    THEN <<JList(<<>>), {}>>
    ELSE IF MapThrows(file) THEN <<file, {}>>
    ELSE <<file, FilenameSet(file)>>

\* mediaFiles.filter(f => !cachedFilenames.has(path.basename(f)))
NewFiles(files, names) == SelectSeq(files, LAMBDA f : basename(f) \notin names)

Merge_NewFirst(cached, new) == new \o cached.items

\* [...cachedItems, ...newItems]
Merge(cached, new) == cached.items \o new

\* JSON.stringify(allItems) as written to the cache file
Serialize(items) == JList(items)

\* ------------------------------------------------------------ suggestBroll
SuggestFailures == {"throws", "no_content", "bad_json", "null", "array", "scalar",
                    "object_plain", "object_nonlist", "object_falsy"}
SuggestOutcomes == SuggestFailures \cup {"object_list0", "object_list1"}

\* generateStructuredOutput<BrollSuggestions>: what brollResult is
StructuredOutput(outcome) ==
    IF outcome \in {"throws", "no_content", "bad_json"} THEN "object_list0" ELSE outcome

\* brollResult.suggestions || []
SuggestReturn(outcome) ==
    LET brollResult == StructuredOutput(outcome)
    IN  CASE brollResult = "null"           -> [kind |-> "raised", n |-> 0]
          [] brollResult = "object_nonlist" -> [kind |-> "nonlist", n |-> 0]
          [] brollResult = "object_list1"   -> [kind |-> "list", n |-> 1]
          [] OTHER                          -> [kind |-> "list", n |-> 0]

NoResult == [kind |-> "none", n |-> 0]

\* ------------------------------------------------------------------ state
VARIABLES
    pc,              \* position of the running script or call
    caller,          \* "main" (the script) or "direct" (a call of analyzeMediaFiles)
    cacheFile,       \* content of the cache file
    mediaFiles,      \* the mediaFiles argument of the current run
    cachedItems,     \* the local cachedItems
    cachedFilenames, \* the local cachedFilenames
    newFiles,        \* the local newFiles
    newItems,        \* the local newItems
    calls,           \* the analysis requests of this run: <<file, request failed>>
    allItems,        \* the local allItems
    result,          \* what analyzeMediaFiles returned
    writes,          \* Deno.writeTextFile calls of this run, and whether the last one succeeded
    thrownAt,        \* where an exception left the run, "none" otherwise
    suggested,       \* what suggestBroll returned
    sOutcome,        \* outcome of the suggestion request
    run              \* history of the run: whether the first run found no cache (clean), the
                     \* cache at the start of this run (before), whether it was read (readOk),
                     \* and whether this run repeats the previous call (repeat)

vars == <<pc, caller, cacheFile, mediaFiles, cachedItems, cachedFilenames, newFiles, newItems,
          calls, allItems, result, writes, thrownAt, suggested, sOutcome, run>>

ItemA == FallbackItem(<<"a", "mp4">>, "video")

\* contents the cache file may have before the first run
InitialCaches ==
    {Absent, Garbage, JNull, JObject, JNumber, JString,
     JList(<<>>), JList(<<ItemA>>), JList(<<NullElem>>), JList(<<ItemA, NullElem>>),
     JList(<<Item(Undefined, "video", "d", "r", {})>>)}

NoReturn == [kind |-> "none", items |-> <<>>]

Init ==
    /\ pc = "idle"
    /\ caller = "direct"
    /\ cacheFile \in InitialCaches
    /\ mediaFiles = <<>>
    /\ cachedItems = JList(<<>>)
    /\ cachedFilenames = {}
    /\ newFiles = <<>>
    /\ newItems = <<>>
    /\ calls = <<>>
    /\ allItems = <<>>
    /\ result = NoReturn
    /\ writes = [n |-> 0, ok |-> FALSE]
    /\ thrownAt = "none"
    /\ suggested = NoResult
    /\ sOutcome = "none"
    /\ run = [clean |-> cacheFile = Absent, before |-> cacheFile, readOk |-> TRUE,
              repeat |-> FALSE]

\* a run is started only while the cache cannot outgrow MaxItems
Room(files) == Len(cacheFile.items) + Len(files) <= MaxItems

\* the locals before a run
Locals ==
    /\ cachedItems' = JList(<<>>)
    /\ cachedFilenames' = {}
    /\ newFiles' = <<>>
    /\ newItems' = <<>>
    /\ calls' = <<>>
    /\ allItems' = <<>>
    /\ result' = NoReturn
    /\ writes' = [n |-> 0, ok |-> FALSE]
    /\ thrownAt' = "none"
    /\ suggested' = NoResult
    /\ sOutcome' = "none"

\* an exception nobody catches: it ends the script, or reaches the direct caller
Escaped == IF caller = "main" THEN "crashed" ELSE "thrown"

\* main script, line 5: gatherMediaFiles("./media")
MainGather ==
    /\ pc = "idle"
    /\ \E dirExists \in BOOLEAN, entries \in SeqsUpTo(Paths, MaxFiles) :
          /\ \A i, j \in DOMAIN entries : i # j => entries[i] # entries[j]
          /\ Room(entries)
          /\ mediaFiles' = gatherMediaFiles(dirExists, entries)
    /\ caller' = "main"
    /\ pc' = "m_context"
    /\ UNCHANGED <<cacheFile, cachedItems, cachedFilenames, newFiles, newItems, calls, allItems,
                   result, writes, thrownAt, suggested, sOutcome, run>>

\* main script, line 8: Deno.readTextFileSync("marketing.md")
MainReadContext ==
    /\ pc = "m_context"
    /\ \E ok \in BOOLEAN :
          IF ok THEN pc' = "a_entry" /\ thrownAt' = thrownAt
                ELSE pc' = "crashed" /\ thrownAt' = "readContext"
    /\ UNCHANGED <<caller, cacheFile, mediaFiles, cachedItems, cachedFilenames, newFiles,
                   newItems, calls, allItems, result, writes, suggested, sOutcome, run>>

\* a caller other than the script calls analyzeMediaFiles(files, ...)
CallAnalyze ==
    /\ pc = "idle"
    /\ \E files \in SeqsUpTo(Paths, MaxFiles) :
          /\ Room(files)
          /\ mediaFiles' = files
    /\ caller' = "direct"
    /\ pc' = "a_entry"
    /\ UNCHANGED <<cacheFile, cachedItems, cachedFilenames, newFiles, newItems, calls, allItems,
                   result, writes, thrownAt, suggested, sOutcome, run>>

\* the caller calls analyzeMediaFiles again with the list of the call that just returned
\* and wrote the cache (any other second call is a CallAnalyze after Finish)
CallAgain ==
    /\ pc = "returned"
    /\ ~run.repeat
    /\ writes.ok
    /\ Room(mediaFiles)
    /\ Locals
    /\ run' = [run EXCEPT !.before = cacheFile, !.readOk = TRUE, !.repeat = TRUE]
    /\ pc' = "a_entry"
    /\ UNCHANGED <<caller, cacheFile, mediaFiles>>

\* analyzeMediaFiles: await ensureDir(transcriptDir)
EnsureDir ==
    /\ pc = "a_entry"
    /\ \E ok \in BOOLEAN :
          IF ok THEN pc' = "a_load" /\ thrownAt' = thrownAt
                ELSE pc' = Escaped /\ thrownAt' = "ensureDir"
    /\ UNCHANGED <<caller, cacheFile, mediaFiles, cachedItems, cachedFilenames, newFiles,
                   newItems, calls, allItems, result, writes, suggested, sOutcome, run>>

\* analyzeMediaFiles: load the cache and select the new files
Load ==
    /\ pc = "a_load"
    /\ \E readOk \in BOOLEAN :
          LET loaded == LoadCache(cacheFile, readOk)
          IN  /\ cachedItems' = loaded[1]
              /\ cachedFilenames' = loaded[2]
              /\ newFiles' = NewFiles(mediaFiles, loaded[2])
              /\ run' = [run EXCEPT !.readOk = readOk \/ cacheFile.kind = "absent"]
    /\ pc' = "a_loop"
    /\ UNCHANGED <<caller, cacheFile, mediaFiles, newItems, calls, allItems, result, writes,
                   thrownAt, suggested, sOutcome>>

\* analyzeMediaFiles: one iteration of the loop over newFiles.  The image bytes, the
\* extracted frame and the transcript only go into the text of the request (their
\* failures are caught and leave it without an image or transcript), so what the
\* iteration leaves behind is decided by the file and by the outcome of the request.
\* fileName is path.basename(path.resolve(f)): resolve keeps the last segment.
AnalyzeFile ==
    /\ pc = "a_loop"
    /\ Len(newItems) < Len(newFiles)
    /\ LET f == newFiles[Len(newItems) + 1]
       IN  \E outcome \in Outcomes :
              /\ calls' = Append(calls, <<f, outcome \in FailOutcomes>>)
              /\ newItems' = Append(newItems, ItemFor(f, outcome))
    /\ UNCHANGED <<pc, caller, cacheFile, mediaFiles, cachedItems, cachedFilenames, newFiles,
                   allItems, result, writes, thrownAt, suggested, sOutcome, run>>

\* analyzeMediaFiles: const allItems = [...cachedItems, ...newItems]
Combine ==
    /\ pc = "a_loop"
    /\ Len(newItems) = Len(newFiles)
    /\ IF SpreadThrows(cachedItems)
       THEN /\ pc' = Escaped
            /\ thrownAt' = "combine"
            /\ allItems' = allItems
       ELSE /\ pc' = "a_write"
            /\ thrownAt' = thrownAt
            /\ allItems' = Merge(cachedItems, newItems)
    /\ UNCHANGED <<caller, cacheFile, mediaFiles, cachedItems, cachedFilenames, newFiles,
                   newItems, calls, result, writes, suggested, sOutcome, run>>

\* analyzeMediaFiles: write the cache (failure swallowed) and return allItems
Save ==
    /\ pc = "a_write"
    /\ \E ok \in BOOLEAN :
          /\ cacheFile' = IF ok THEN Serialize(allItems) ELSE cacheFile
          /\ writes' = [n |-> writes.n + 1, ok |-> ok]
    /\ result' = [kind |-> "list", items |-> allItems]
    /\ pc' = IF caller = "main" THEN "s_call" ELSE "returned"
    /\ UNCHANGED <<caller, mediaFiles, cachedItems, cachedFilenames, newFiles, newItems, calls,
                   allItems, thrownAt, suggested, sOutcome, run>>

\* main script, line 13: suggestBroll(analyzedMedia, marketingContext); the locals of
\* analyzeMediaFiles are gone by now, analyzedMedia (result) is what is left of the call
Suggest ==
    /\ pc = "s_call"
    /\ \E outcome \in SuggestOutcomes :
          /\ sOutcome' = outcome
          /\ suggested' = SuggestReturn(outcome)
          /\ pc' = IF SuggestReturn(outcome).kind = "raised" THEN "crashed" ELSE "done"
          /\ thrownAt' = IF SuggestReturn(outcome).kind = "raised" THEN "suggest" ELSE thrownAt
    /\ cachedItems' = JList(<<>>)
    /\ cachedFilenames' = {}
    /\ newFiles' = <<>>
    /\ newItems' = <<>>
    /\ calls' = <<>>
    /\ allItems' = <<>>
    /\ UNCHANGED <<caller, cacheFile, mediaFiles, result, writes, run>>

\* the run is over: the process ends, and a later one finds the cache file as it is
Finish ==
    /\ pc \in {"returned", "thrown", "done", "crashed"}
    /\ pc' = "idle"
    /\ Locals
    /\ mediaFiles' = <<>>
    /\ caller' = "direct"
    /\ run' = [run EXCEPT !.before = cacheFile, !.readOk = TRUE, !.repeat = FALSE]
    /\ UNCHANGED cacheFile

Next ==
    \/ MainGather
    \/ MainReadContext
    \/ CallAnalyze
    \/ CallAgain
    \/ EnsureDir
    \/ Load
    \/ AnalyzeFile
    \/ Combine
    \/ Save
    \/ Suggest
    \/ Finish

Spec == Init /\ [][Next]_vars

\* ------------------------------------------------------------------ claims
\* positions at which the locals of analyzeMediaFiles hold the loaded cache
Loaded == pc \in {"a_loop", "a_write", "returned", "s_call"}

\* positions right after analyzeMediaFiles returned
JustReturned == pc \in {"returned", "s_call"}

\* the call of analyzeMediaFiles is over, by a return or by an exception
CallOver == JustReturned \/ pc = "thrown" \/ (pc = "crashed" /\ thrownAt \in {"ensureDir", "combine"})

\* the filenames of the records of a list are pairwise distinct
DistinctFilenames(items) ==
    \A i, j \in DOMAIN items : i # j => items[i].filename # items[j].filename

\* a cache file that is not a list of records with a filename
Malformed(c) ==
    \/ c.kind \in {"garbage", "null", "object", "number", "string"}
    \/ c.kind = "list" /\ \E i \in DOMAIN c.items :
          c.items[i].tag # "record" \/ c.items[i].filename = Undefined

\* C1: after any sequence of runs that started from an absent cache, the filenames of the
\* persisted cache are pairwise distinct, and no analysis request is made for a file whose
\* base name was a filename of the cache when the run started.
C1_UniqueFilenames ==
    run.clean =>
        /\ DistinctFilenames(cacheFile.items)
        /\ \A i \in DOMAIN calls : basename(calls[i][1]) \notin FilenameSet(run.before)

\* C2: when the cache file is unreadable or malformed, the loaded cached sequence is empty
\* and analyzeMediaFiles does not raise while merging and persisting.
C2_CorruptCacheFailsSoft ==
    (Malformed(run.before) \/ ~run.readOk) =>
        /\ Loaded => cachedItems = JList(<<>>)
        /\ thrownAt # "combine"

\* C3: a second run with the same path list, both runs reading and writing the cache without
\* an error, adds no item and leaves the set of filenames of the persisted cache as the first
\* run left it.
C3_SecondRunAddsNothing ==
    (pc = "returned" /\ run.repeat /\ run.readOk /\ writes.ok) =>
        /\ newItems = <<>>
        /\ FilenameSet(cacheFile) = FilenameSet(run.before)

\* the cache file holds the loaded items followed by the new items
PersistedIsLoadedThenNew ==
    LET before == cachedItems.items
    IN  /\ cacheFile.kind = "list"
        /\ Len(cacheFile.items) = Len(before) + Len(newItems)
        /\ SubSeq(cacheFile.items, 1, Len(before)) = before
        /\ SubSeq(cacheFile.items, Len(before) + 1, Len(cacheFile.items)) = newItems

C5_UnseenByBaseName ==
    Loaded =>
        newFiles = SelectSeq(mediaFiles,
                             LAMBDA p : \A i \in DOMAIN cachedItems.items :
                                           cachedItems.items[i].filename # <<p.stem, p.ext>>)

\* the kind the code detects for a path
DetectedKind(f) == MediaType(f)

\* C6: whenever the analysis request for an unseen file F of detected kind K fails, the item
\* appended for F is {filename: basename(F), media_type: K, description: "No description
\* found", relevance: "unknown"} and has no other field.
C6_FallbackItem ==
    \A i \in DOMAIN calls :
        calls[i][2] =>
            /\ i \in DOMAIN newItems
            /\ newItems[i] = [tag |-> "record",
                              filename |-> <<calls[i][1].stem, calls[i][1].ext>>,
                              media_type |-> DetectedKind(calls[i][1]),
                              description |-> "No description found",
                              relevance |-> "unknown",
                              extra |-> {}]

C6_Witness ==
    \E i \in DOMAIN calls :
        /\ calls[i][2]
        /\ calls[i][1].ext = "PNG"
        /\ newItems[i].media_type = "image"

\* C7: for every failure of the suggestion request, suggestBroll returns an empty list and
\* raises nothing.
C7_SuggestFailsSoft ==
    sOutcome \in SuggestFailures =>
        /\ suggested = [kind |-> "list", n |-> 0]
        /\ thrownAt # "suggest"

\* C8: in every run the cache write is attempted exactly once, and when the write fails
\* analyzeMediaFiles raises nothing and returns the cached items followed by the new items.
C8_WriteAttemptedOnce ==
    CallOver =>
        /\ writes.n = 1
        /\ ~writes.ok => /\ thrownAt = "none"
                         /\ result = [kind |-> "list", items |-> cachedItems.items \o newItems]

\* C9: whatever the filesystem and the services do, the script finishes with a list of
\* suggestions; no exception ends it.
C9_ScriptNeverCrashes ==
    /\ pc # "crashed"
    /\ pc = "done" => suggested.kind = "list"

\* C10: within a run the analysis requests are made one per unseen file, in the order of the
\* unseen files, each followed by exactly one new item, never for a file whose base name is a
\* filename of the loaded cache; when the loop is over there is one item per unseen file.
C10_OneRequestPerUnseenFile ==
    Loaded =>
        /\ Len(calls) = Len(newItems)
        /\ Len(calls) <= Len(newFiles)
        /\ \A i \in DOMAIN calls : calls[i][1] = newFiles[i]
        /\ \A i \in DOMAIN calls :
              \A j \in DOMAIN cachedItems.items :
                 cachedItems.items[j].filename # basename(calls[i][1])
        /\ pc # "a_loop" => Len(newItems) = Len(newFiles)

====
